---- MODULE Spec2Model ----
(***************************************************************************)
(* Model of the SSD1677 e-paper driver (sebgab/SSD1677):                   *)
(*   config.rs         Builder / Config                                    *)
(*   interface.rs      Interface4Pin: send_command, send_data, busy_wait   *)
(*   command.rs        the command layer (one operator per command)        *)
(*   basic_display.rs  BasicDisplay: new, reset, init, update              *)
(*   display.rs        Display: new, update, clear, set_pixel, draw_iter,  *)
(*                     and the address mapping function rotation           *)
(*                                                                         *)
(* Integers: TLC integers are 32-bit signed.  A u32 value n is written as  *)
(* the integer congruent to n modulo 2^32 that lies in -2^31 .. 2^31-1, so *)
(* a wrapped (underflowed) u32 shows as a negative number.                 *)
(***************************************************************************)
EXTENDS Integers, Sequences, FiniteSets, TLC

VARIABLES
    overflow_checks, \* build profile: TRUE = arithmetic overflow panics, FALSE = wraps
    pc,              \* "builder" | "config" | "basic" | "display" | "panicked" | "map"
                     \* | "command" | "pair" | "write" | "interface" | "blocked"
                     \* | "running" | "returned"
    builder,         \* config::Builder {dimensions, rotation, auto_update}
    config,          \* config::Config  {dimensions, rotation, auto_update}, or NoConfig
    bw_buffer,       \* Display::bw_buffer (the caller's slice), <<>> before promotion
    hasBuffer,       \* TRUE once a Display (with its bw_buffer) exists
    initialized,     \* history: init() completed since the last hardware reset
    log,             \* what the last public call did on the transport, in order
                     \* (InterfaceSpec: every event on the pins and the bus so far)
    last,            \* the last public call: operation, arguments, outcome
    draws,           \* number of set_pixel calls made (PixelSpec), of interface
                     \* calls made (InterfaceSpec), of steps taken (LiveSpec)
    mapIn,           \* arguments of the function under test (MapSpec,
                     \* CommandSpec, InitPairSpec, WriteSpec); the hardware of
                     \* InterfaceSpec; the buffer before the call (DrawSpec);
                     \* the operation and the busy line (LiveSpec)
    mapOut           \* its results (MapSpec, InitPairSpec, WriteSpec); the calls
                     \* made so far (InterfaceSpec)

vars == <<overflow_checks, pc, builder, config, bw_buffer, hasBuffer,
          initialized, log, last, draws, mapIn, mapOut>>

(***************************************************************************)
(* Bounds of the model.                                                    *)
(***************************************************************************)
\* set_pixel calls per behaviour of PixelSpec
MaxDraws == 1
\* interface calls per behaviour of InterfaceSpec
MaxCalls == 2
\* pixels in one draw_iter call
MaxIter == 1
\* largest framebuffer a caller of the model allocates, in bytes
BufCap == 4

(***************************************************************************)
(* Program constants.                                                      *)
(***************************************************************************)
MAX_GATE_OUTPUTS == 680
MAX_SOURCE_OUTPUTS == 960
RESET_DELAY_MS == 10

(***************************************************************************)
(* Byte and word arithmetic.                                               *)
(***************************************************************************)
RECURSIVE Pow2(_)
Pow2(n) == IF n = 0 THEN 1 ELSE 2 * Pow2(n - 1)

\* bit k (0 = least significant) of the byte b
BitOf(b, k) == (b \div Pow2(k)) % 2

RECURSIVE AndBits(_, _, _)
AndBits(a, b, k) ==
    IF k = 8 THEN 0
    ELSE BitOf(a, k) * BitOf(b, k) * Pow2(k) + AndBits(a, b, k + 1)

\* u8 & u8
BitAnd(a, b) == AndBits(a, b, 0)
\* !u8
BitNot(a) == 255 - a
\* u8 | u8  (De Morgan on 8 bits)
BitOr(a, b) == BitNot(BitAnd(BitNot(a), BitNot(b)))

\* u32 division and remainder by 8 on the signed representative: a negative
\* v stands for 2^32 + v, and 2^32 = 8 * 2^29.
Div8(v) == IF v >= 0 THEN v \div 8 ELSE 536870912 + (v \div 8)
Mod8(v) == v % 8

\* u16 subtraction of one: wraps to 65535 at zero
Dec16(v) == IF v = 0 THEN 65535 ELSE v - 1

\* u16::to_le_bytes
to_le_bytes(v) == <<v % 256, v \div 256>>

(***************************************************************************)
(* display.rs: rotation(x, y, width, height, rotation) -> (index, bit).    *)
(* overflow is TRUE when one of its u32 subtractions goes below zero.      *)
(***************************************************************************)
Rotations == {"Rotate0", "Rotate90", "Rotate180", "Rotate270"}

\* rotation with the Rotate90 bit taken from x instead of y
rotation_bit_from_x(x, y, width, height, rot) ==
    LET base == IF rot \in {"Rotate0", "Rotate180"} THEN width ELSE height
        xf == base - x
        ovf0 == base < x
    IN  CASE rot = "Rotate0" ->
               [index |-> Div8(xf) + (width \div 8) * y,
                bit |-> 128 \div Pow2(Mod8(xf)),
                overflow |-> ovf0]
          [] rot = "Rotate90" ->
               [index |-> Div8(width - 1 - y) + (width \div 8) * xf,
                bit |-> Pow2(Mod8(xf)),
                overflow |-> ovf0 \/ width < 1 \/ width - 1 < y]
          [] rot = "Rotate180" ->
               LET a == (width \div 8) * height
                   b == Div8(xf) + (width \div 8) * y
               IN  [index |-> (a - 1) - b,
                    bit |-> Pow2(Mod8(xf)),
                    overflow |-> ovf0 \/ a < 1 \/ (~ovf0 /\ a - 1 < b)]
          [] rot = "Rotate270" ->
               LET index0 == y \div 8
                   height_offset == height - xf
                   multiplier == width \div 8
                   additive == height_offset * multiplier
               IN  [index |-> index0 + additive,
                    bit |-> 128 \div Pow2(Mod8(y)),
                    overflow |-> ovf0 \/ (~ovf0 /\ height < xf)]

rotation(x, y, width, height, rot) ==
    LET base == IF rot \in {"Rotate0", "Rotate180"} THEN width ELSE height
        xf == base - x
        ovf0 == base < x
    IN  CASE rot = "Rotate0" ->
               [index |-> Div8(xf) + (width \div 8) * y,
                bit |-> 128 \div Pow2(Mod8(xf)),
                overflow |-> ovf0]
          [] rot = "Rotate90" ->
               [index |-> Div8(width - 1 - y) + (width \div 8) * xf,
                bit |-> Pow2(Mod8(y)),
                overflow |-> ovf0 \/ width < 1 \/ width - 1 < y]
          [] rot = "Rotate180" ->
               LET a == (width \div 8) * height
                   b == Div8(xf) + (width \div 8) * y
               IN  [index |-> (a - 1) - b,
                    bit |-> Pow2(Mod8(xf)),
                    overflow |-> ovf0 \/ a < 1 \/ (~ovf0 /\ a - 1 < b)]
          [] rot = "Rotate270" ->
               LET index0 == y \div 8
                   height_offset == height - xf
                   multiplier == width \div 8
                   additive == height_offset * multiplier
               IN  [index |-> index0 + additive,
                    bit |-> 128 \div Pow2(Mod8(y)),
                    overflow |-> ovf0 \/ (~ovf0 /\ height < xf)]

(***************************************************************************)
(* Values shared by the specifications.                                    *)
(***************************************************************************)
NoDimensions == [rows |-> -1, cols |-> -1]

NoConfig == [dimensions |-> NoDimensions, rotation |-> "Rotate0", auto_update |-> FALSE]

NoCall ==
    [op |-> "none", result |-> "none", dims |-> NoDimensions,
     x |-> 0, y |-> 0, color |-> "none", index |-> 0, bit |-> 0,
     mode |-> 0, bw |-> <<>>, red |-> <<>>,
     failed |-> FALSE, overflowed |-> FALSE, pixels |-> <<>>,
     error |-> "none", rotation |-> "none", enabled |-> FALSE,
     failAt |-> 0, calls |-> <<>>]

\* size without the exchange for Rotate90 and Rotate270
size_unrotated(cfg) ==
    [width |-> cfg.dimensions.cols, height |-> cfg.dimensions.rows]

\* display.rs: OriginDimensions::size, the rotation-adjusted reported size
size(cfg) ==
    IF cfg.rotation \in {"Rotate0", "Rotate180"}
    THEN [width |-> cfg.dimensions.cols, height |-> cfg.dimensions.rows]
    ELSE [width |-> cfg.dimensions.rows, height |-> cfg.dimensions.cols]

\* the length the documentation asks of the framebuffer
BufferLength(d) == (d.rows * d.cols) \div 8

(***************************************************************************)
(* interface.rs: the transport.  A call is modelled by the list of steps   *)
(* it takes, in program order; Exec runs the list until a transfer fails   *)
(* or an arithmetic step panics.                                           *)
(*   cmd   one command byte written with the data/command line low         *)
(*   data  data bytes written with the data/command line high              *)
(*   busy  busy_wait: poll the busy line until it is low                   *)
(*   rst_low, rst_high, delay   the reset line and the settle delay (ms)   *)
(*   sub16 a u16 "v - 1" of the program (not a transport step)             *)
(***************************************************************************)
Ev(t, b) == [t |-> t, b |-> b]

busy_wait == <<Ev("busy", <<>>)>>

send_command(command) == <<Ev("cmd", <<command>>)>> \o busy_wait

send_data(data) == <<Ev("data", data)>> \o busy_wait

Sub16(v) == <<Ev("sub16", <<v>>)>>

IsTransfer(e) == e.t \in {"cmd", "data"}

\* Exec(steps, failAt, oc): failAt = n > 0 makes the n-th SPI write of the
\* call return an error (0: every write succeeds); oc is overflow_checks.
\* res is "Ok", "Err" (the error of the failed write, passed up by `?`) or
\* "Overflow" (arithmetic panic); sent is what reached the transport.
RECURSIVE StopIndex(_, _, _, _)
StopIndex(steps, i, failAt, oc) ==
    IF i > Len(steps) THEN [at |-> i, res |-> "Ok"]
    ELSE IF steps[i].t = "sub16"
    THEN IF steps[i].b[1] = 0 /\ oc
         THEN [at |-> i, res |-> "Overflow"]
         ELSE StopIndex(steps, i + 1, failAt, oc)
    ELSE IF IsTransfer(steps[i])
    THEN IF failAt = 1
         THEN [at |-> i, res |-> "Err"]
         ELSE StopIndex(steps, i + 1, IF failAt > 0 THEN failAt - 1 ELSE 0, oc)
    ELSE StopIndex(steps, i + 1, failAt, oc)

IsTransportStep(e) == e.t # "sub16"

\* Exec that goes on with the remaining steps after the failed write
Exec_past_failure(steps, failAt, oc) ==
    LET stop == StopIndex(steps, 1, failAt, oc)
        whole == StopIndex(steps, 1, 0, oc)
    IN  [sent |-> SelectSeq(SubSeq(steps, 1, whole.at - 1), IsTransportStep),
         res |-> stop.res]

\* Exec that repeats the failed write once, with success, before it stops
Exec_retry(steps, failAt, oc) ==
    LET stop == StopIndex(steps, 1, failAt, oc)
        upto == IF stop.res = "Err" THEN stop.at ELSE stop.at - 1
    IN  [sent |-> SelectSeq(SubSeq(steps, 1, upto), IsTransportStep),
         res |-> stop.res]

Exec(steps, failAt, oc) ==
    LET stop == StopIndex(steps, 1, failAt, oc)
    IN  [sent |-> SelectSeq(SubSeq(steps, 1, stop.at - 1), IsTransportStep),
         res |-> stop.res]

\* number of SPI writes in a list of steps
NumTransfers(steps) == Len(SelectSeq(steps, IsTransfer))

(***************************************************************************)
(* command.rs: the command layer, impl DisplayCommands for Interface4Pin.  *)
(***************************************************************************)
set_driver_output_control_from_width(width) ==
    send_command(1)
        \o Sub16(width) \o send_data(<<Dec16(width) % 256>>)
        \o Sub16(width) \o send_data(<<Dec16(width) \div 256>>)
        \o send_data(<<2>>)

\* (increment_axis << 2) | data_entry_mode, the two fields do not overlap
set_data_entry_mode(data_entry_mode, increment_axis) ==
    send_command(17) \o send_data(<<increment_axis * 4 + data_entry_mode>>)

write_ram_black_and_white(data) == send_command(36) \o send_data(data)

\* write_ram_red with the opcode of the black/white RAM
write_ram_red_bw_opcode(data) == send_command(36) \o send_data(data)

write_ram_red(data) == send_command(38) \o send_data(data)

auto_write_ram_red_regular_pattern(value) == send_command(70) \o send_data(<<value>>)

auto_write_ram_black_and_white_regular_pattern(value) ==
    send_command(71) \o send_data(<<value>>)

set_ram_x_count(offset) == send_command(78) \o send_data(to_le_bytes(offset))

set_ram_y_count(offset) == send_command(79) \o send_data(to_le_bytes(offset))

refresh_display == send_command(32) \o busy_wait

\* data = [start lo, start hi, end lo, end hi & 0b00111111]
set_ram_x_address(start, end) ==
    send_command(68)
        \o send_data(to_le_bytes(start)
                     \o <<to_le_bytes(end)[1], BitAnd(to_le_bytes(end)[2], 63)>>)

set_ram_y_address(start, end) ==
    send_command(69)
        \o send_data(to_le_bytes(start)
                     \o <<to_le_bytes(end)[1], BitAnd(to_le_bytes(end)[2], 63)>>)

set_ram_address_based_on_size(width, height) ==
    Sub16(height) \o set_ram_x_address(0, Dec16(height))
        \o Sub16(width) \o set_ram_y_address(0, Dec16(width))

update_display_option2(option) == send_command(34) \o send_data(<<option>>)

reset_hardware ==
    <<Ev("rst_low", <<>>), Ev("delay", <<RESET_DELAY_MS>>),
      Ev("rst_high", <<>>), Ev("delay", <<RESET_DELAY_MS>>)>>

reset_software == send_command(18) \o busy_wait

\* (vdb_option << 6) | (fixed_level_setting << 4) | transition_setting
set_border_waveform_control(vdb_option, fixed_level_setting, transition_setting) ==
    send_command(60)
        \o send_data(<<vdb_option * 64 + fixed_level_setting * 16 + transition_setting>>)

set_temperature_sensor(sensor) == send_command(24) \o send_data(<<sensor>>)

\* let [upper, lower] = max_gate_lines.to_le_bytes(): upper is the low byte
set_driver_output_control(max_gate_lines, scanning_sequence_and_direction) ==
    send_command(1)
        \o send_data(to_le_bytes(max_gate_lines) \o <<scanning_sequence_and_direction>>)

nop == send_command(127)

\* set_gate_driving_voltage with a table that starts at 0x06
set_gate_driving_voltage_from_6(voltage) ==
    LET value == IF voltage >= 120 /\ voltage <= 200 /\ voltage % 5 = 0
                 THEN 6 + (voltage - 120) \div 5
                 ELSE 0
    IN  send_command(3) \o send_data(<<value>>)

\* voltage in tenths of a volt: 12.0, 12.5 .. 20.0 give 0x07 .. 0x17, any
\* other value gives 0
set_gate_driving_voltage(voltage) ==
    LET value == IF voltage >= 120 /\ voltage <= 200 /\ voltage % 5 = 0
                 THEN 7 + (voltage - 120) \div 5
                 ELSE 0
    IN  send_command(3) \o send_data(<<value>>)

\* ((red_option & 0b1111) << 4) | (black_and_white_option & 0b1111)
update_display_option1(black_and_white_option, red_option) ==
    send_command(33)
        \o send_data(<<(red_option % 16) * 16 + (black_and_white_option % 16)>>)

set_booster_soft_start_control(inrush) ==
    send_command(12) \o send_data(<<174, 199, 195, 192, inrush>>)

\* enum values of command.rs and basic_display.rs
IncrementXIncrementY == 3
Horizontal == 0
Transition == 0
VSS == 0
LUT1 == 1
Internal == 128
Fast == 255
Slow == 247

(***************************************************************************)
(* basic_display.rs: the step lists of init, reset and update.             *)
(***************************************************************************)
\* init that fills both RAMs with 0xFF
init_steps_white_fill(cfg) ==
    auto_write_ram_black_and_white_regular_pattern(255)
        \o auto_write_ram_red_regular_pattern(255)
        \o set_driver_output_control_from_width(cfg.dimensions.rows)
        \o set_data_entry_mode(IncrementXIncrementY, Horizontal)
        \o set_ram_address_based_on_size(cfg.dimensions.rows, cfg.dimensions.cols)
        \o set_border_waveform_control(Transition, VSS, LUT1)
        \o set_temperature_sensor(Internal)
        \o update_display_option2(255)
        \o refresh_display
        \o busy_wait

init_steps(cfg) ==
    auto_write_ram_black_and_white_regular_pattern(247)
        \o auto_write_ram_red_regular_pattern(247)
        \o set_driver_output_control_from_width(cfg.dimensions.rows)
        \o set_data_entry_mode(IncrementXIncrementY, Horizontal)
        \o set_ram_address_based_on_size(cfg.dimensions.rows, cfg.dimensions.cols)
        \o set_border_waveform_control(Transition, VSS, LUT1)
        \o set_temperature_sensor(Internal)
        \o update_display_option2(255)
        \o refresh_display
        \o busy_wait

\* reset that re-initialises before the software reset
reset_steps_init_first(cfg) ==
    reset_hardware \o init_steps(cfg) \o reset_software \o busy_wait

reset_steps(cfg) ==
    reset_hardware \o reset_software \o busy_wait \o init_steps(cfg)

\* update that writes the red plane before the B/W plane
update_steps_red_first(bw, red, update_mode) ==
    (IF red # <<>>
     THEN set_ram_x_count(0) \o set_ram_y_count(0) \o write_ram_red(red[1])
     ELSE <<>>)
        \o (IF bw # <<>>
            THEN set_ram_x_count(0) \o set_ram_y_count(0)
                     \o write_ram_black_and_white(bw[1])
            ELSE <<>>)
        \o update_display_option2(update_mode)
        \o refresh_display

\* update that writes the B/W plane before resetting the RAM counters
update_steps_late_reset(bw, red, update_mode) ==
    (IF bw # <<>>
     THEN write_ram_black_and_white(bw[1]) \o set_ram_x_count(0) \o set_ram_y_count(0)
     ELSE <<>>)
        \o (IF red # <<>>
            THEN set_ram_x_count(0) \o set_ram_y_count(0) \o write_ram_red(red[1])
            ELSE <<>>)
        \o update_display_option2(update_mode)
        \o refresh_display

\* a plane is <<>> for None and <<buffer>> for Some(buffer)
update_steps(bw, red, update_mode) ==
    (IF bw # <<>>
     THEN set_ram_x_count(0) \o set_ram_y_count(0) \o write_ram_black_and_white(bw[1])
     ELSE <<>>)
        \o (IF red # <<>>
            THEN set_ram_x_count(0) \o set_ram_y_count(0) \o write_ram_red(red[1])
            ELSE <<>>)
        \o update_display_option2(update_mode)
        \o refresh_display

\* Result::expect / Result::unwrap on the result of a command: Err panics
expect(res) == IF res = "Ok" THEN "Ok" ELSE "panic"

(***************************************************************************)
(* config.rs: Builder.                                                     *)
(***************************************************************************)
Builder_default ==
    [dimensions |-> NoDimensions, rotation |-> "Rotate0", auto_update |-> TRUE]

\* the dimensions a caller hands to the builder
DimChoices ==
    {[rows |-> 0, cols |-> 8], [rows |-> 1, cols |-> 0],
     [rows |-> 1, cols |-> 8],
     [rows |-> 480, cols |-> 800], [rows |-> 680, cols |-> 960],
     [rows |-> 480, cols |-> 801], [rows |-> 700, cols |-> 800],
     [rows |-> 1, cols |-> 968], [rows |-> 681, cols |-> 8]}

\* dimensions_ok without the divisibility assert
dimensions_ok_unaligned(d) ==
    /\ d.rows <= MAX_GATE_OUTPUTS
    /\ d.cols <= MAX_SOURCE_OUTPUTS

\* the three assert! of Builder::dimensions
dimensions_ok(d) ==
    /\ d.cols % 8 = 0
    /\ d.rows <= MAX_GATE_OUTPUTS
    /\ d.cols <= MAX_SOURCE_OUTPUTS

Builder_dimensions(d) ==
    /\ pc = "builder"
    /\ IF dimensions_ok(d)
       THEN /\ builder' = [builder EXCEPT !.dimensions = d]
            /\ pc' = pc
            /\ last' = [NoCall EXCEPT !.op = "dimensions", !.dims = d, !.result = "Ok"]
       ELSE /\ builder' = builder
            /\ pc' = "panicked"
            /\ last' = [NoCall EXCEPT !.op = "dimensions", !.dims = d, !.result = "panic"]
    /\ UNCHANGED <<overflow_checks, config, bw_buffer, hasBuffer, initialized, log,
                   draws, mapIn, mapOut>>

Builder_rotation(r) ==
    /\ pc = "builder"
    /\ builder' = [builder EXCEPT !.rotation = r]
    /\ last' = [NoCall EXCEPT !.op = "rotation", !.rotation = r, !.result = "Ok"]
    /\ UNCHANGED <<overflow_checks, pc, config, bw_buffer, hasBuffer, initialized, log,
                   draws, mapIn, mapOut>>

\* auto_update that builds its result from Builder::default()
Builder_auto_update_from_default(enabled) ==
    /\ pc = "builder"
    /\ builder' = [Builder_default EXCEPT !.auto_update = enabled]
    /\ last' = [NoCall EXCEPT !.op = "auto_update", !.enabled = enabled, !.result = "Ok"]
    /\ UNCHANGED <<overflow_checks, pc, config, bw_buffer, hasBuffer, initialized, log,
                   draws, mapIn, mapOut>>

Builder_auto_update(enabled) ==
    /\ pc = "builder"
    /\ builder' = [builder EXCEPT !.auto_update = enabled]
    /\ last' = [NoCall EXCEPT !.op = "auto_update", !.enabled = enabled, !.result = "Ok"]
    /\ UNCHANGED <<overflow_checks, pc, config, bw_buffer, hasBuffer, initialized, log,
                   draws, mapIn, mapOut>>

\* build consumes the builder; after Err the caller starts from Builder::new()
Builder_build ==
    /\ pc = "builder"
    /\ IF builder.dimensions = NoDimensions
       THEN /\ config' = config
            /\ builder' = Builder_default
            /\ pc' = pc
            /\ last' = [NoCall EXCEPT !.op = "build", !.result = "Err"]
       ELSE /\ config' = builder
            /\ builder' = builder
            /\ pc' = "config"
            /\ last' = [NoCall EXCEPT !.op = "build", !.result = "Ok"]
    /\ UNCHANGED <<overflow_checks, bw_buffer, hasBuffer, initialized, log,
                   draws, mapIn, mapOut>>

(***************************************************************************)
(* basic_display.rs: BasicDisplay.                                         *)
(***************************************************************************)
BasicDisplay_new ==
    /\ pc = "config"
    /\ pc' = "basic"
    /\ initialized' = FALSE
    /\ log' = <<>>
    /\ last' = [NoCall EXCEPT !.op = "new", !.result = "Ok"]
    /\ UNCHANGED <<overflow_checks, builder, config, bw_buffer, hasBuffer,
                   draws, mapIn, mapOut>>

\* the outcome of a call that runs steps on the transport
Outcome(op, r) ==
    [NoCall EXCEPT !.op = op, !.result = expect(r.res),
                   !.failed = (r.res = "Err"), !.overflowed = (r.res = "Overflow")]

BasicDisplay_init(failAt) ==
    /\ pc \in {"basic", "display"}
    /\ LET r == Exec(init_steps(config), failAt, overflow_checks)
       IN  /\ log' = r.sent
           /\ last' = [Outcome("init", r) EXCEPT !.failAt = failAt]
           /\ initialized' = (initialized \/ r.res = "Ok")
           /\ pc' = IF r.res = "Ok" THEN pc ELSE "panicked"
    /\ UNCHANGED <<overflow_checks, builder, config, bw_buffer, hasBuffer,
                   draws, mapIn, mapOut>>

BasicDisplay_reset(failAt) ==
    /\ pc \in {"basic", "display"}
    /\ LET r == Exec(reset_steps(config), failAt, overflow_checks)
       IN  /\ log' = r.sent
           /\ last' = [Outcome("reset", r) EXCEPT !.failAt = failAt]
           /\ initialized' = (r.res = "Ok")
           /\ pc' = IF r.res = "Ok" THEN pc ELSE "panicked"
    /\ UNCHANGED <<overflow_checks, builder, config, bw_buffer, hasBuffer,
                   draws, mapIn, mapOut>>

\* the plane buffers a caller hands to BasicDisplay::update
CallerPlanes == {<<>>, <<<<165>>>>}

UpdateModes == {Fast, Slow}

UpdateEffect(bw, red, update_mode, failAt) ==
    /\ pc \in {"basic", "display"}
    /\ LET r == Exec(update_steps(bw, red, update_mode), failAt, overflow_checks)
       IN  /\ log' = r.sent
           /\ last' = [Outcome("update", r) EXCEPT
                          !.bw = bw, !.red = red, !.mode = update_mode,
                          !.failAt = failAt]
           /\ pc' = IF r.res = "Ok" THEN pc ELSE "panicked"
    /\ UNCHANGED <<overflow_checks, builder, config, bw_buffer, hasBuffer, initialized,
                   draws, mapIn, mapOut>>

\* BasicDisplay::update called by name; on a Display the name update
\* resolves to Display::update
BasicDisplay_update(bw, red, update_mode, failAt) ==
    /\ pc = "basic"
    /\ UpdateEffect(bw, red, update_mode, failAt)

(***************************************************************************)
(* display.rs: Display.                                                    *)
(***************************************************************************)
\* the slices a caller hands over as bw_buffer: the documented length
\* rows * cols / 8 or one byte less (the constructors check neither)
BufferLengths(d) == {n \in {BufferLength(d), BufferLength(d) - 1} : n >= 0 /\ n <= BufCap}

CallerBuffers(d, fills) ==
    {[i \in 1 .. n |-> f] : n \in BufferLengths(d), f \in fills}

Display_new(buf) ==
    /\ pc = "config"
    /\ pc' = "display"
    /\ bw_buffer' = buf
    /\ hasBuffer' = TRUE
    /\ initialized' = FALSE
    /\ log' = <<>>
    /\ last' = [NoCall EXCEPT !.op = "new", !.result = "Ok"]
    /\ UNCHANGED <<overflow_checks, builder, config, draws, mapIn, mapOut>>

from_basic_display(buf) ==
    /\ pc = "basic"
    /\ pc' = "display"
    /\ bw_buffer' = buf
    /\ hasBuffer' = TRUE
    /\ log' = <<>>
    /\ last' = [NoCall EXCEPT !.op = "from_basic_display", !.result = "Ok"]
    /\ UNCHANGED <<overflow_checks, builder, config, initialized, draws, mapIn, mapOut>>

\* Display::update(mode) = self.display.update(Some(self.bw_buffer), None, mode)
Display_update(update_mode, failAt) ==
    /\ pc = "display"
    /\ UpdateEffect(<<bw_buffer>>, <<>>, update_mode, failAt)

\* unsigned "<" on two u32 given by their signed representatives
ULt(a, b) == IF (a >= 0) = (b >= 0) THEN a < b ELSE b < 0

\* set_pixel with "=" where the code has "&=" and "|="
set_pixel_overwrite(buf, cfg, x, y, color, oc) ==
    LET m == rotation(x, y, cfg.dimensions.cols, cfg.dimensions.rows, cfg.rotation)
        arith == m.overflow /\ oc
        inside == ~arith /\ m.index >= 0 /\ m.index < Len(buf)
    IN  [buffer |-> IF inside
                    THEN [buf EXCEPT ![m.index + 1] =
                              IF color = "On" THEN BitNot(m.bit) ELSE m.bit]
                    ELSE buf,
         res |-> IF inside THEN "Ok" ELSE "panic",
         index |-> m.index, bit |-> m.bit, overflowed |-> arith]

\* set_pixel on the buffer buf: the mapping, the bounds-checked index, the bit
set_pixel(buf, cfg, x, y, color, oc) ==
    LET m == rotation(x, y, cfg.dimensions.cols, cfg.dimensions.rows, cfg.rotation)
        arith == m.overflow /\ oc
        inside == ~arith /\ m.index >= 0 /\ m.index < Len(buf)
    IN  [buffer |-> IF inside
                    THEN [buf EXCEPT ![m.index + 1] =
                              IF color = "On" THEN BitAnd(@, BitNot(m.bit))
                              ELSE BitOr(@, m.bit)]
                    ELSE buf,
         res |-> IF inside THEN "Ok" ELSE "panic",
         index |-> m.index, bit |-> m.bit, overflowed |-> arith]

SetPixelEffect(x, y, color) ==
    /\ pc = "display"
    /\ LET r == set_pixel(bw_buffer, config, x, y, color, overflow_checks)
       IN  /\ bw_buffer' = r.buffer
           /\ last' = [NoCall EXCEPT !.op = "set_pixel", !.result = r.res,
                                     !.x = x, !.y = y, !.color = color,
                                     !.index = r.index, !.bit = r.bit,
                                     !.overflowed = r.overflowed]
           /\ pc' = IF r.res = "Ok" THEN pc ELSE "panicked"
    /\ log' = <<>>
    /\ UNCHANGED <<overflow_checks, builder, config, hasBuffer, initialized,
                   mapIn, mapOut>>

Display_set_pixel(x, y, color) ==
    /\ SetPixelEffect(x, y, color)
    /\ UNCHANGED draws

\* draw_pixels that clips with a signed comparison
RECURSIVE draw_pixels_signed_clip(_, _, _, _)
draw_pixels_signed_clip(buf, cfg, pixels, oc) ==
    IF pixels = <<>> THEN [buffer |-> buf, res |-> "Ok", calls |-> <<>>]
    ELSE LET px == Head(pixels)
             sz == size(cfg)
         IN  IF px.x < sz.width /\ px.y < sz.height
             THEN LET r == set_pixel(buf, cfg, px.x, px.y, px.color, oc)
                  IN  IF r.res # "Ok"
                      THEN [buffer |-> r.buffer, res |-> "panic",
                            calls |-> <<<<px.x, px.y>>>>]
                      ELSE LET t == draw_pixels_signed_clip(r.buffer, cfg, Tail(pixels), oc)
                           IN  [buffer |-> t.buffer, res |-> t.res,
                                calls |-> <<<<px.x, px.y>>>> \o t.calls]
             ELSE draw_pixels_signed_clip(buf, cfg, Tail(pixels), oc)

\* the loop of draw_iter: clip against size(), then set_pixel; a panic of
\* set_pixel ends the loop.  calls lists the coordinates given to set_pixel.
RECURSIVE draw_pixels(_, _, _, _)
draw_pixels(buf, cfg, pixels, oc) ==
    IF pixels = <<>> THEN [buffer |-> buf, res |-> "Ok", calls |-> <<>>]
    ELSE LET px == Head(pixels)
             sz == size(cfg)
         IN  IF ULt(px.x, sz.width) /\ ULt(px.y, sz.height)
             THEN LET r == set_pixel(buf, cfg, px.x, px.y, px.color, oc)
                  IN  IF r.res # "Ok"
                      THEN [buffer |-> r.buffer, res |-> "panic",
                            calls |-> <<<<px.x, px.y>>>>]
                      ELSE LET t == draw_pixels(r.buffer, cfg, Tail(pixels), oc)
                           IN  [buffer |-> t.buffer, res |-> t.res,
                                calls |-> <<<<px.x, px.y>>>> \o t.calls]
             ELSE draw_pixels(buf, cfg, Tail(pixels), oc)

NoTransport == [sent |-> <<>>, res |-> "Ok"]

draw_iter(pixels, failAt) ==
    /\ pc = "display"
    /\ LET d == draw_pixels(bw_buffer, config, pixels, overflow_checks)
           r == IF d.res = "Ok" /\ config.auto_update
                THEN Exec(update_steps(<<d.buffer>>, <<>>, Fast), failAt, overflow_checks)
                ELSE NoTransport
           ok == d.res = "Ok" /\ r.res = "Ok"
       IN  /\ bw_buffer' = d.buffer
           /\ log' = r.sent
           /\ last' = [NoCall EXCEPT !.op = "draw_iter", !.pixels = pixels,
                                     !.result = IF ok THEN "Ok" ELSE "panic",
                                     !.failed = (r.res = "Err"),
                                     !.mode = Fast, !.bw = <<d.buffer>>,
                                     !.failAt = failAt, !.calls = d.calls]
           /\ pc' = IF ok THEN pc ELSE "panicked"
    /\ UNCHANGED <<overflow_checks, builder, config, hasBuffer, initialized,
                   draws, mapIn, mapOut>>

\* clear with the two fill values exchanged
clear_inverted(color, failAt) ==
    /\ pc = "display"
    /\ LET fill_value == IF color = "On" THEN 255 ELSE 0
           filled == [i \in 1 .. Len(bw_buffer) |-> fill_value]
           r == IF config.auto_update
                THEN Exec(update_steps(<<filled>>, <<>>, Slow), failAt, overflow_checks)
                ELSE NoTransport
       IN  /\ bw_buffer' = filled
           /\ log' = r.sent
           /\ last' = [Outcome("clear", r) EXCEPT
                          !.color = color, !.mode = Slow, !.bw = <<filled>>]
           /\ pc' = IF r.res = "Ok" THEN pc ELSE "panicked"
    /\ UNCHANGED <<overflow_checks, builder, config, hasBuffer, initialized,
                   draws, mapIn, mapOut>>

\* clear(color) with the graphics feature (the build that compiles)
clear(color, failAt) ==
    /\ pc = "display"
    /\ LET fill_value == IF color = "On" THEN 0 ELSE 255
           filled == [i \in 1 .. Len(bw_buffer) |-> fill_value]
           r == IF config.auto_update
                THEN Exec(update_steps(<<filled>>, <<>>, Slow), failAt, overflow_checks)
                ELSE NoTransport
       IN  /\ bw_buffer' = filled
           /\ log' = r.sent
           /\ last' = [Outcome("clear", r) EXCEPT
                          !.color = color, !.mode = Slow, !.bw = <<filled>>]
           /\ pc' = IF r.res = "Ok" THEN pc ELSE "panicked"
    /\ UNCHANGED <<overflow_checks, builder, config, hasBuffer, initialized,
                   draws, mapIn, mapOut>>

(***************************************************************************)
(* Spec: a caller builds a Config, creates a display and uses it.          *)
(***************************************************************************)
Colors == {"On", "Off"}

\* where the transport fails during a call: nowhere, at its first write (a
\* command byte), at its second (data) or at its last
FailPoints(steps) == {0, 1, 2, NumTransfers(steps)}

\* where the transport fails during the automatic update of draw_iter and
\* clear: a display without auto_update makes no transfer that could fail
AutoFailPoints(steps) ==
    IF config.auto_update THEN {0, 1, NumTransfers(steps)} ELSE {0}

\* the rotations a caller configures: the default and the one of the example
RotationChoices == {"Rotate0", "Rotate270"}

\* coordinates a caller draws at: the corners of the reported size and one
\* point past its right edge
Corners(cfg) ==
    LET sz == size(cfg)
    IN  {<<0, 0>>, <<sz.width, 0>>}
            \cup (IF sz.width > 0 /\ sz.height > 0
                  THEN {<<sz.width - 1, sz.height - 1>>} ELSE {})

\* pixels a caller gives to draw_iter: Point has signed coordinates
DrawPixels(cfg) ==
    {[x |-> c[1], y |-> c[2], color |-> "On"] : c \in Corners(cfg)}
        \cup {[x |-> -1, y |-> 0, color |-> "Off"]}

PixelLists(cfg) == UNION {[1 .. n -> DrawPixels(cfg)] : n \in 0 .. MaxIter}

Init ==
    /\ overflow_checks \in BOOLEAN
    /\ pc = "builder"
    /\ builder = Builder_default
    /\ config = NoConfig
    /\ bw_buffer = <<>>
    /\ hasBuffer = FALSE
    /\ initialized = FALSE
    /\ log = <<>>
    /\ last = NoCall
    /\ draws = 0
    /\ mapIn = <<>>
    /\ mapOut = <<>>

Next ==
    \/ \E d \in DimChoices : Builder_dimensions(d)
    \/ \E r \in RotationChoices : Builder_rotation(r)
    \/ \E b \in BOOLEAN : Builder_auto_update(b)
    \/ Builder_build
    \/ BasicDisplay_new
    \/ \E buf \in CallerBuffers(config.dimensions, {165}) : Display_new(buf)
    \/ \E buf \in CallerBuffers(config.dimensions, {165}) : from_basic_display(buf)
    \/ \E failAt \in FailPoints(init_steps(config)) : BasicDisplay_init(failAt)
    \/ \E failAt \in FailPoints(reset_steps(config)) : BasicDisplay_reset(failAt)
    \/ \E bw \in CallerPlanes, red \in CallerPlanes, m \in UpdateModes :
           \E failAt \in FailPoints(update_steps(bw, red, m)) :
               BasicDisplay_update(bw, red, m, failAt)
    \/ \E m \in UpdateModes :
           \E failAt \in FailPoints(update_steps(<<bw_buffer>>, <<>>, m)) :
               Display_update(m, failAt)
    \/ \E c \in Corners(config), k \in Colors : Display_set_pixel(c[1], c[2], k)
    \/ \E failAt \in AutoFailPoints(update_steps(<<bw_buffer>>, <<>>, Fast)) :
           \E pixels \in PixelLists(config) : draw_iter(pixels, failAt)
    \/ \E failAt \in AutoFailPoints(update_steps(<<bw_buffer>>, <<>>, Slow)) :
           \E k \in Colors : clear(k, failAt)

Spec == Init /\ [][Next]_vars

(***************************************************************************)
(* BuilderSpec: the calls of a Builder alone, with every rotation.         *)
(***************************************************************************)
BuilderNext ==
    \/ \E d \in DimChoices : Builder_dimensions(d)
    \/ \E r \in Rotations : Builder_rotation(r)
    \/ \E b \in BOOLEAN : Builder_auto_update(b)
    \/ Builder_build

BuilderSpec == Init /\ [][BuilderNext]_vars

(***************************************************************************)
(* PixelSpec: set_pixel on a framebuffer.  Init draws a configuration and  *)
(* a buffer; the action calls set_pixel at any coordinate of the reported  *)
(* size or one past it.                                                    *)
(***************************************************************************)
PixelPanels == {[rows |-> 1, cols |-> 8], [rows |-> 2, cols |-> 16]}

PixelInit ==
    /\ overflow_checks \in BOOLEAN
    /\ pc = "display"
    /\ builder = Builder_default
    /\ \E d \in PixelPanels, r \in Rotations :
           /\ config = [dimensions |-> d, rotation |-> r, auto_update |-> FALSE]
           /\ bw_buffer \in CallerBuffers(d, {0, 165, 255})
    /\ hasBuffer = TRUE
    /\ initialized = FALSE
    /\ log = <<>>
    /\ last = [NoCall EXCEPT !.op = "new", !.result = "Ok"]
    /\ draws = 0
    /\ mapIn = <<>>
    /\ mapOut = <<>>

PixelDraw ==
    /\ draws < MaxDraws
    /\ draws' = draws + 1
    /\ \E x \in 0 .. size(config).width, y \in 0 .. size(config).height, k \in Colors :
           SetPixelEffect(x, y, k)

PixelNext == PixelDraw

PixelSpec == PixelInit /\ [][PixelNext]_vars

(***************************************************************************)
(* DrawSpec: one draw_iter on a display.  Init draws a configuration and   *)
(* a buffer and keeps the buffer as it was before the call in mapIn; the   *)
(* action draws a list of pixels inside and outside the reported size.     *)
(***************************************************************************)
\* pixels a caller gives to draw_iter: inside the reported size (On) and
\* past its edges or at a negative coordinate (Off)
DrawPoints(cfg) ==
    LET sz == size(cfg)
    IN  {[x |-> 0, y |-> 0, color |-> "On"],
         [x |-> sz.width - 1, y |-> sz.height - 1, color |-> "On"],
         [x |-> sz.width, y |-> 0, color |-> "Off"],
         [x |-> 0, y |-> sz.height, color |-> "Off"],
         [x |-> -1, y |-> 0, color |-> "Off"],
         [x |-> 0, y |-> -1, color |-> "Off"]}

DrawLists(cfg) == UNION {[1 .. n -> DrawPoints(cfg)] : n \in 0 .. (MaxIter + 1)}

DrawInit ==
    /\ overflow_checks \in BOOLEAN
    /\ pc = "display"
    /\ builder = Builder_default
    /\ \E d \in PixelPanels, r \in Rotations, a \in BOOLEAN :
           /\ config = [dimensions |-> d, rotation |-> r, auto_update |-> a]
           /\ bw_buffer \in CallerBuffers(d, {165, 255})
    /\ hasBuffer = TRUE
    /\ initialized = FALSE
    /\ log = <<>>
    /\ last = [NoCall EXCEPT !.op = "new", !.result = "Ok"]
    /\ draws = 0
    /\ mapIn = [buffer |-> bw_buffer]
    /\ mapOut = <<>>

DrawCall ==
    /\ last.op = "new"
    /\ \E failAt \in AutoFailPoints(update_steps(<<bw_buffer>>, <<>>, Fast)) :
           \E pixels \in DrawLists(config) : draw_iter(pixels, failAt)

DrawNext == DrawCall

DrawSpec == DrawInit /\ [][DrawNext]_vars

(***************************************************************************)
(* MapSpec: the address mapping as a pure function.  Init draws a panel,   *)
(* a rotation and two logical coordinates inside the reported size; the    *)
(* action applies rotation to both, as set_pixel does (display.rs:184).    *)
(***************************************************************************)
SmallPanels ==
    {[rows |-> 1, cols |-> 8], [rows |-> 3, cols |-> 8], [rows |-> 2, cols |-> 16]}

NativePanel == [rows |-> 480, cols |-> 800]

\* coordinates tried on a panel: all of them on a small panel, the corners
\* and the byte boundary on the 800x480 panel
Along(n) == IF n <= 16 THEN 0 .. (n - 1) ELSE {0, 7, 8, n - 1}

MapInputsOf(d, r) ==
    LET sz == size([dimensions |-> d, rotation |-> r, auto_update |-> FALSE])
    IN  {[dims |-> d, rot |-> r, x1 |-> p, y1 |-> q, x2 |-> s, y2 |-> t] :
            p \in Along(sz.width), q \in Along(sz.height),
            s \in Along(sz.width), t \in Along(sz.height)}

\* the call of rotation made by set_pixel, under the build profile oc
MapCall(x, y, d, r, oc) ==
    LET m == rotation(x, y, d.cols, d.rows, r)
    IN  [index |-> m.index, bit |-> m.bit, overflow |-> m.overflow,
         panicked |-> (m.overflow /\ oc)]

MapInit ==
    /\ overflow_checks \in BOOLEAN
    /\ pc = "map"
    /\ builder = NoConfig
    /\ config = NoConfig
    /\ bw_buffer = <<>>
    /\ hasBuffer = FALSE
    /\ initialized = FALSE
    /\ log = <<>>
    /\ last = NoCall
    /\ draws = 0
    /\ \E d \in SmallPanels \cup {NativePanel}, r \in Rotations :
           mapIn \in MapInputsOf(d, r)
    /\ mapOut = <<>>

MapApply ==
    /\ pc = "map"
    /\ mapOut = <<>>
    /\ mapOut' = <<MapCall(mapIn.x1, mapIn.y1, mapIn.dims, mapIn.rot, overflow_checks),
                   MapCall(mapIn.x2, mapIn.y2, mapIn.dims, mapIn.rot, overflow_checks)>>
    /\ UNCHANGED <<overflow_checks, pc, builder, config, bw_buffer, hasBuffer,
                   initialized, log, last, draws, mapIn>>

MapNext == MapApply

MapSpec == MapInit /\ [][MapNext]_vars

(***************************************************************************)
(* CommandSpec: one call of one operation of the command layer.  Init      *)
(* draws the operation, its arguments, the write the transport fails at    *)
(* (0: none) and the error it fails with; the action makes the call.       *)
(***************************************************************************)
Call(op, a, b, c, data) == [op |-> op, a |-> a, b |-> b, c |-> c, data |-> data]

\* 16-bit values around the 10-bit and 14-bit boundaries
EndValues == {0, 1, 255, 256, 959, 1023, 1024, 1025, 16383, 16384, 65535}

CommandArgs ==
    {Call("set_driver_output_control", a, b, 0, <<>>) : a \in {0, 479, 679}, b \in {0, 2}}
    \cup {Call("set_driver_output_control_from_width", a, 0, 0, <<>>) : a \in {0, 1, 480, 680}}
    \cup {Call("set_data_entry_mode", a, b, 0, <<>>) : a \in 0 .. 3, b \in 0 .. 1}
    \cup {Call(op, 0, 0, 0, d) : op \in {"write_ram_black_and_white", "write_ram_red"},
                                 d \in {<<165>>, <<0, 255>>}}
    \cup {Call(op, a, 0, 0, <<>>) :
             op \in {"auto_write_ram_red_regular_pattern",
                     "auto_write_ram_black_and_white_regular_pattern"},
             a \in {0, 247}}
    \cup {Call(op, a, 0, 0, <<>>) : op \in {"set_ram_x_count", "set_ram_y_count"},
                                    a \in {0, 1, 300}}
    \cup {Call(op, 0, 0, 0, <<>>) :
             op \in {"refresh_display", "nop", "reset_software", "reset_hardware",
                     "set_source_driving_voltage"}}
    \cup {Call(op, a, b, 0, <<>>) : op \in {"set_ram_x_address", "set_ram_y_address"},
                                    a \in {0, 1}, b \in EndValues}
    \cup {Call("set_ram_address_based_on_size", a, b, 0, <<>>) :
             a \in {0, 1, 480, 680}, b \in {0, 8, 800, 960}}
    \cup {Call("set_gate_driving_voltage", a, 0, 0, <<>>) :
             a \in {-120, 0, 115, 120, 123, 125, 160, 195, 200, 205}}
    \cup {Call("update_display_option1", a, b, 0, <<>>) : a \in {0, 4, 8}, b \in {0, 4, 8}}
    \cup {Call("update_display_option2", a, 0, 0, <<>>) : a \in {0, 247, 255}}
    \cup {Call("set_border_waveform_control", a, b, c, <<>>) :
             a \in 0 .. 3, b \in 0 .. 3, c \in 0 .. 3}
    \cup {Call("set_temperature_sensor", a, 0, 0, <<>>) : a \in {48, 128}}
    \cup {Call("set_booster_soft_start_control", a, 0, 0, <<>>) : a \in {64, 128}}

CommandSteps(call) ==
    CASE call.op = "set_driver_output_control" -> set_driver_output_control(call.a, call.b)
      [] call.op = "set_driver_output_control_from_width" ->
             set_driver_output_control_from_width(call.a)
      [] call.op = "set_data_entry_mode" -> set_data_entry_mode(call.a, call.b)
      [] call.op = "write_ram_black_and_white" -> write_ram_black_and_white(call.data)
      [] call.op = "write_ram_red" -> write_ram_red(call.data)
      [] call.op = "auto_write_ram_red_regular_pattern" ->
             auto_write_ram_red_regular_pattern(call.a)
      [] call.op = "auto_write_ram_black_and_white_regular_pattern" ->
             auto_write_ram_black_and_white_regular_pattern(call.a)
      [] call.op = "set_ram_x_count" -> set_ram_x_count(call.a)
      [] call.op = "set_ram_y_count" -> set_ram_y_count(call.a)
      [] call.op = "refresh_display" -> refresh_display
      [] call.op = "nop" -> nop
      [] call.op = "reset_software" -> reset_software
      [] call.op = "reset_hardware" -> reset_hardware
      [] call.op = "set_ram_x_address" -> set_ram_x_address(call.a, call.b)
      [] call.op = "set_ram_y_address" -> set_ram_y_address(call.a, call.b)
      [] call.op = "set_ram_address_based_on_size" ->
             set_ram_address_based_on_size(call.a, call.b)
      [] call.op = "set_gate_driving_voltage" -> set_gate_driving_voltage(call.a)
      [] call.op = "update_display_option1" -> update_display_option1(call.a, call.b)
      [] call.op = "update_display_option2" -> update_display_option2(call.a)
      [] call.op = "set_border_waveform_control" ->
             set_border_waveform_control(call.a, call.b, call.c)
      [] call.op = "set_temperature_sensor" -> set_temperature_sensor(call.a)
      [] call.op = "set_booster_soft_start_control" ->
             set_booster_soft_start_control(call.a)
      [] call.op = "set_source_driving_voltage" -> <<>>

\* the errors a transport returns
TransportErrors == {"E1", "E2"}

\* a call with the write that fails (0: none) and the error of that write
CommandCalls ==
    {[call |-> k, failAt |-> n, error |-> e] :
        k \in CommandArgs, n \in 0 .. 4, e \in TransportErrors \cup {"none"}}

\* set_source_driving_voltage is todo!(): it panics before any transfer
CommandRun(call, failAt, oc) ==
    IF call.op = "set_source_driving_voltage"
    THEN [sent |-> <<>>, res |-> "Todo"]
    ELSE Exec(CommandSteps(call), failAt, oc)

CommandInit ==
    /\ overflow_checks \in BOOLEAN
    /\ pc = "command"
    /\ builder = NoConfig
    /\ config = NoConfig
    /\ bw_buffer = <<>>
    /\ hasBuffer = FALSE
    /\ initialized = FALSE
    /\ log = <<>>
    /\ last = NoCall
    /\ draws = 0
    /\ mapIn \in CommandCalls
    /\ mapIn.failAt <= NumTransfers(CommandSteps(mapIn.call))
    /\ (mapIn.error = "none") = (mapIn.failAt = 0)
    /\ mapOut = <<>>

CommandApply ==
    /\ pc = "command"
    /\ last.op = "none"
    /\ LET r == CommandRun(mapIn.call, mapIn.failAt, overflow_checks)
       IN  /\ log' = r.sent
           /\ last' = [NoCall EXCEPT
                          !.op = mapIn.call.op,
                          !.result = IF r.res \in {"Ok", "Err"} THEN r.res ELSE "panic",
                          !.failed = (r.res = "Err"),
                          !.overflowed = (r.res = "Overflow"),
                          !.error = IF r.res = "Err" THEN mapIn.error ELSE "none"]
    /\ UNCHANGED <<overflow_checks, pc, builder, config, bw_buffer, hasBuffer,
                   initialized, draws, mapIn, mapOut>>

CommandNext == CommandApply

CommandSpec == CommandInit /\ [][CommandNext]_vars

(***************************************************************************)
(* InitPairSpec: init() on two configurations, the transport never         *)
(* failing.  Init draws two dimension settings that Builder::dimensions    *)
(* accepts; the action runs init on each.                                  *)
(***************************************************************************)
PairDims ==
    {d \in DimChoices \cup {[rows |-> 2, cols |-> 16], [rows |-> 256, cols |-> 256],
                            [rows |-> 300, cols |-> 400], [rows |-> 257, cols |-> 264]} :
        dimensions_ok(d)}

InitPairInit ==
    /\ overflow_checks \in BOOLEAN
    /\ pc = "pair"
    /\ builder = NoConfig
    /\ config = NoConfig
    /\ bw_buffer = <<>>
    /\ hasBuffer = FALSE
    /\ initialized = FALSE
    /\ log = <<>>
    /\ last = NoCall
    /\ draws = 0
    /\ mapIn \in [first : PairDims, second : PairDims]
    /\ mapOut = <<>>

InitPairApply ==
    /\ pc = "pair"
    /\ mapOut = <<>>
    /\ mapOut' = <<Exec(init_steps([Builder_default EXCEPT !.dimensions = mapIn.first]),
                        0, overflow_checks),
                   Exec(init_steps([Builder_default EXCEPT !.dimensions = mapIn.second]),
                        0, overflow_checks)>>
    /\ UNCHANGED <<overflow_checks, pc, builder, config, bw_buffer, hasBuffer,
                   initialized, log, last, draws, mapIn>>

InitPairNext == InitPairApply

InitPairSpec == InitPairInit /\ [][InitPairNext]_vars

(***************************************************************************)
(* interface.rs at the level of the pins and the SPI device.  An event is  *)
(*   dc       the data/command pin is driven to level                      *)
(*   spi      one SpiDevice::write of the bytes b that succeeded; level is *)
(*            the data/command line at that moment                         *)
(*   spi_err  one SpiDevice::write that returned an error                  *)
(*   busy     one read of the busy pin; level is what the read returned:   *)
(*            "high", "low" or "err"                                       *)
(***************************************************************************)
PinEv(t, b, level) == [t |-> t, b |-> b, level |-> level]

Min(a, b) == IF a <= b THEN a ELSE b

\* slice::chunks(n): consecutive pieces of n elements, the last one shorter
Chunks(data, n) ==
    [k \in 1 .. ((Len(data) + n - 1) \div n) |->
        SubSeq(data, (k - 1) * n + 1, Min(k * n, Len(data)))]

IsDc(e) == e.t = "dc"

\* the level of the data/command line after the events l
LineLevel(l) ==
    LET d == SelectSeq(l, IsDc)
    IN  IF d = <<>> THEN "unknown" ELSE d[Len(d)].level

IsSpi(e) == e.t \in {"spi", "spi_err"}

\* the SpiDevice::write calls made in the events l
Attempts(l) == Len(SelectSeq(l, IsSpi))

\* write without the chunking of the Linux target
write_unchunked(data, linux, line, fail) ==
    LET parts == <<data>>
        stop == IF fail >= 1 /\ fail <= Len(parts) THEN fail ELSE Len(parts) + 1
    IN  [sent |-> [k \in 1 .. Min(stop, Len(parts)) |->
                      PinEv(IF k = stop THEN "spi_err" ELSE "spi", parts[k], line)],
         res |-> IF stop <= Len(parts) THEN "Err" ELSE "Ok"]

\* Interface4Pin::write with the data/command line at `line`; the fail-th
\* SpiDevice::write of the call returns an error (0: none)
write(data, linux, line, fail) ==
    LET parts == IF linux THEN Chunks(data, 4096) ELSE <<data>>
        stop == IF fail >= 1 /\ fail <= Len(parts) THEN fail ELSE Len(parts) + 1
    IN  [sent |-> [k \in 1 .. Min(stop, Len(parts)) |->
                      PinEv(IF k = stop THEN "spi_err" ELSE "spi", parts[k], line)],
         res |-> IF stop <= Len(parts) THEN "Err" ELSE "Ok"]

\* busy_wait on a busy pin whose reads return `reads` and then "high" for
\* ever: the loop goes on while the read is Ok(true)
busy_wait_reads(reads) ==
    LET stops == {i \in 1 .. Len(reads) : reads[i] # "high"}
        k == IF stops = {} THEN 0 ELSE CHOOSE i \in stops : \A j \in stops : i <= j
    IN  [sent |-> [i \in 1 .. (IF k = 0 THEN Len(reads) ELSE k) |->
                      PinEv("busy", <<>>, reads[i])],
         res |-> IF k = 0 THEN "Blocked" ELSE "Ok"]

\* the events of one send_command or send_data after the events `before`:
\* drive the data/command pin (unwrap), write, busy_wait
send_events(level, data, hw, before) ==
    IF hw.pinFails
    THEN [sent |-> <<>>, res |-> "Panic"]
    ELSE LET dc == <<PinEv("dc", <<>>, level)>>
             w == write(data, hw.linux, LineLevel(before \o dc),
                        hw.failAt - Attempts(before))
             b == busy_wait_reads(hw.reads)
         IN  IF w.res = "Err"
             THEN [sent |-> dc \o w.sent, res |-> "Err"]
             ELSE [sent |-> dc \o w.sent \o b.sent, res |-> b.res]

send_command_events(command, hw, before) == send_events("low", <<command>>, hw, before)

\* send_data that leaves the data/command pin as it is
send_data_events_line_kept(data, hw, before) ==
    LET w == write(data, hw.linux, LineLevel(before), hw.failAt - Attempts(before))
        b == busy_wait_reads(hw.reads)
    IN  IF w.res = "Err"
        THEN [sent |-> w.sent, res |-> "Err"]
        ELSE [sent |-> w.sent \o b.sent, res |-> b.res]

send_data_events(data, hw, before) == send_events("high", data, hw, before)

\* a caller's buffer of n bytes
Buffer(n) == [i \in 1 .. n |-> i % 251]

(***************************************************************************)
(* WriteSpec: Interface4Pin::write on one buffer.  Init draws the length   *)
(* of the buffer, the target and the SpiDevice::write that fails.          *)
(***************************************************************************)
WriteLengths == {0, 1, 2, 4095, 4096, 4097, 8191, 8192, 8193, 12288, 12289}

WriteInit ==
    /\ overflow_checks \in {FALSE}
    /\ pc = "write"
    /\ builder = NoConfig
    /\ config = NoConfig
    /\ bw_buffer = <<>>
    /\ hasBuffer = FALSE
    /\ initialized = FALSE
    /\ log = <<>>
    /\ last = NoCall
    /\ draws = 0
    /\ mapIn \in [n : WriteLengths, linux : BOOLEAN, failAt : 0 .. 4]
    /\ mapOut = <<>>

WriteApply ==
    /\ pc = "write"
    /\ mapOut = <<>>
    /\ mapOut' = <<write(Buffer(mapIn.n), mapIn.linux, "high", mapIn.failAt)>>
    /\ UNCHANGED <<overflow_checks, pc, builder, config, bw_buffer, hasBuffer,
                   initialized, log, last, draws, mapIn>>

WriteNext == WriteApply

WriteSpec == WriteInit /\ [][WriteNext]_vars

(***************************************************************************)
(* InterfaceSpec: calls of send_command, send_data and busy_wait on an     *)
(* Interface4Pin.  Init draws the hardware: the target, the                *)
(* SpiDevice::write that fails (counted over the behaviour, 0: none),      *)
(* whether driving the data/command pin fails, and what the reads of the   *)
(* busy pin return during one busy_wait.                                   *)
(***************************************************************************)
ReadPatterns == {<<"low">>, <<"high", "low">>, <<"err">>, <<"high", "err">>, <<"high">>}

DataChoices == {<<>>, <<165>>, Buffer(4097)}

InterfaceInit ==
    /\ overflow_checks \in {FALSE}
    /\ pc = "interface"
    /\ builder = NoConfig
    /\ config = NoConfig
    /\ bw_buffer = <<>>
    /\ hasBuffer = FALSE
    /\ initialized = FALSE
    /\ log = <<>>
    /\ last = NoCall
    /\ draws = 0
    /\ mapIn \in [linux : BOOLEAN, failAt : 0 .. 2, pinFails : BOOLEAN,
                  reads : ReadPatterns]
    /\ mapOut = <<>>

\* one call of the interface that took the events r.sent and ended as r.res
InterfaceCall(op, r) ==
    /\ pc = "interface"
    /\ draws < MaxCalls
    /\ draws' = draws + 1
    /\ log' = log \o r.sent
    /\ mapOut' = Append(mapOut, [op |-> op, first |-> Len(log) + 1,
                                 last |-> Len(log) + Len(r.sent)])
    /\ last' = [NoCall EXCEPT
                   !.op = op,
                   !.result = CASE r.res \in {"Ok", "Err"} -> r.res
                                [] r.res = "Blocked" -> "blocked"
                                [] OTHER -> "panic",
                   !.failed = (r.res = "Err")]
    /\ pc' = CASE r.res \in {"Ok", "Err"} -> pc
               [] r.res = "Blocked" -> "blocked"
               [] OTHER -> "panicked"
    /\ UNCHANGED <<overflow_checks, builder, config, bw_buffer, hasBuffer,
                   initialized, mapIn>>

Interface4Pin_send_command(command) ==
    InterfaceCall("send_command", send_command_events(command, mapIn, log))

Interface4Pin_send_data(data) ==
    InterfaceCall("send_data", send_data_events(data, mapIn, log))

Interface4Pin_busy_wait ==
    InterfaceCall("busy_wait", busy_wait_reads(mapIn.reads))

InterfaceNext ==
    \/ \E command \in {32} : Interface4Pin_send_command(command)
    \/ \E data \in DataChoices : Interface4Pin_send_data(data)
    \/ Interface4Pin_busy_wait

InterfaceSpec == InterfaceInit /\ [][InterfaceNext]_vars

(***************************************************************************)
(* LiveSpec: one operation executed step by step while the busy line       *)
(* changes.  draws is the number of steps of the operation already taken.  *)
(* A busy step is the loop of busy_wait: it is left only by a read that    *)
(* finds the line low.  Every transfer succeeds.  The program is one       *)
(* sequential thread that keeps running: weak fairness on its steps.       *)
(***************************************************************************)
LiveOps ==
    {"send_command", "send_data", "refresh_display", "reset_software",
     "init", "reset", "update"}

LiveDims ==
    {[rows |-> 0, cols |-> 8], [rows |-> 1, cols |-> 8], [rows |-> 480, cols |-> 800]}

LiveSteps ==
    CASE mapIn.op = "send_command" -> send_command(32)
      [] mapIn.op = "send_data" -> send_data(<<165>>)
      [] mapIn.op = "refresh_display" -> refresh_display
      [] mapIn.op = "reset_software" -> reset_software
      [] mapIn.op = "init" -> init_steps(config)
      [] mapIn.op = "reset" -> reset_steps(config)
      [] mapIn.op = "update" -> update_steps(<<<<165>>>>, <<>>, Fast)

LiveInit ==
    /\ overflow_checks \in BOOLEAN
    /\ pc = "running"
    /\ builder = Builder_default
    /\ \E d \in LiveDims :
           config = [dimensions |-> d, rotation |-> "Rotate0", auto_update |-> FALSE]
    /\ bw_buffer = <<>>
    /\ hasBuffer = FALSE
    /\ initialized = FALSE
    /\ log = <<>>
    /\ last = NoCall
    /\ draws = 0
    /\ mapIn \in [op : LiveOps, line : {"high", "low"}]
    /\ mapOut = <<>>

\* the next step of the operation
Live_step ==
    /\ pc = "running"
    /\ draws < Len(LiveSteps)
    /\ LET e == LiveSteps[draws + 1]
       IN  /\ e.t = "busy" => mapIn.line = "low"
           /\ IF e.t = "sub16" /\ e.b[1] = 0 /\ overflow_checks
              THEN /\ pc' = "panicked"
                   /\ last' = [NoCall EXCEPT !.op = mapIn.op, !.result = "panic",
                                             !.overflowed = TRUE]
                   /\ UNCHANGED <<draws, log>>
              ELSE /\ draws' = draws + 1
                   /\ log' = IF IsTransportStep(e) THEN Append(log, e) ELSE log
                   /\ UNCHANGED <<pc, last>>
    /\ UNCHANGED <<overflow_checks, builder, config, bw_buffer, hasBuffer,
                   initialized, mapIn, mapOut>>

\* the operation returns Ok after its last step
Live_return ==
    /\ pc = "running"
    /\ draws = Len(LiveSteps)
    /\ pc' = "returned"
    /\ last' = [NoCall EXCEPT !.op = mapIn.op, !.result = "Ok"]
    /\ UNCHANGED <<overflow_checks, builder, config, bw_buffer, hasBuffer,
                   initialized, log, draws, mapIn, mapOut>>

\* the controller drives the busy line
BusyLine(level) ==
    /\ pc = "running"
    /\ mapIn.line # level
    /\ mapIn' = [mapIn EXCEPT !.line = level]
    /\ UNCHANGED <<overflow_checks, pc, builder, config, bw_buffer, hasBuffer,
                   initialized, log, last, draws, mapOut>>

LiveNext ==
    \/ Live_step
    \/ Live_return
    \/ \E level \in {"high", "low"} : BusyLine(level)

LiveSpec ==
    LiveInit /\ [][LiveNext]_vars /\ WF_vars(Live_step) /\ WF_vars(Live_return)

(***************************************************************************)
(* Properties.                                                             *)
(***************************************************************************)
OneBit(b) == b \in {1, 2, 4, 8, 16, 32, 64, 128}

\* the last call was set_pixel at a coordinate inside the reported size
InBoundsSetPixel ==
    /\ last.op = "set_pixel"
    /\ last.x < size(config).width
    /\ last.y < size(config).height

\* C1: for every rotation and every coordinate inside the reported size,
\* set_pixel computes a byte index below rows*cols/8 and a mask with exactly
\* one bit set.  (PixelSpec)
C1_IndexInBounds ==
    InBoundsSetPixel =>
        /\ last.index >= 0
        /\ last.index < BufferLength(config.dimensions)
        /\ OneBit(last.bit)

\* C2: under Rotate0 the mapping of the caller's (x, y) is
\* byte = x/8 + (width/8)*y, bit = 0x80 >> (x%8), width = cols; on the
\* 800x480 panel (0,0) -> (0, 0x80), (7,0) -> (0, 0x01), (8,0) -> (1, 0x80).
\* (MapSpec)
C2_Rotate0Formula ==
    (mapOut # <<>> /\ mapIn.rot = "Rotate0") =>
        /\ mapOut[1].index = (mapIn.x1 \div 8) + (mapIn.dims.cols \div 8) * mapIn.y1
        /\ mapOut[1].bit = 128 \div Pow2(mapIn.x1 % 8)
        /\ (mapIn.dims = NativePanel /\ mapIn.y1 = 0) =>
               /\ mapIn.x1 = 0 => (mapOut[1].index = 0 /\ mapOut[1].bit = 128)
               /\ mapIn.x1 = 7 => (mapOut[1].index = 0 /\ mapOut[1].bit = 1)
               /\ mapIn.x1 = 8 => (mapOut[1].index = 1 /\ mapOut[1].bit = 128)

\* C3: for each rotation the mapping is injective on the reported size: two
\* distinct coordinates never get the same byte index and the same bit.
\* (MapSpec)
C3_Injective ==
    (/\ mapOut # <<>>
     /\ <<mapIn.x1, mapIn.y1>> # <<mapIn.x2, mapIn.y2>>
     /\ ~mapOut[1].panicked
     /\ ~mapOut[2].panicked) =>
        ~(mapOut[1].index = mapOut[2].index /\ mapOut[1].bit = mapOut[2].bit)

\* two distinct pixels of one byte were mapped
C3_Witness ==
    /\ mapOut # <<>>
    /\ <<mapIn.x1, mapIn.y1>> # <<mapIn.x2, mapIn.y2>>
    /\ ~mapOut[1].panicked
    /\ ~mapOut[2].panicked
    /\ mapOut[1].index = mapOut[2].index
    /\ mapOut[1].bit # mapOut[2].bit

\* C4: a set_pixel that returns leaves the targeted bit cleared for On and
\* set for Off, and every other bit of the framebuffer as it was.  (PixelSpec)
C4_SetPixelFrame ==
    [][(last'.op = "set_pixel" /\ last'.result = "Ok") =>
          /\ Len(bw_buffer') = Len(bw_buffer)
          /\ \A i \in 1 .. Len(bw_buffer), k \in 0 .. 7 :
                 IF i = last'.index + 1 /\ Pow2(k) = last'.bit
                 THEN BitOf(bw_buffer'[i], k) = (IF last'.color = "On" THEN 0 ELSE 1)
                 ELSE BitOf(bw_buffer'[i], k) = BitOf(bw_buffer[i], k)]_vars

\* set_pixel(On) cleared one bit of a byte that keeps other bits set
C4_Witness ==
    /\ last.op = "set_pixel"
    /\ last.result = "Ok"
    /\ last.color = "On"
    /\ bw_buffer[last.index + 1] \notin {0, 165, 255}

\* the SPI writes of a log, and the opcodes of its command bytes
Transfers(l) == SelectSeq(l, IsTransfer)

IsCommand(e) == e.t = "cmd"

Opcodes(l) ==
    LET c == SelectSeq(l, IsCommand) IN [i \in 1 .. Len(c) |-> c[i].b[1]]

IsPrefix(a, b) == Len(a) <= Len(b) /\ a = SubSeq(b, 1, Len(a))

\* 0x47, 0x46, 0x01, 0x11, 0x44, 0x45, 0x3C, 0x18, 0x22, 0x20
InitOpcodes == <<71, 70, 1, 17, 68, 69, 60, 24, 34, 32>>

\* C5: when every transport operation succeeds, init() sends exactly the
\* opcodes 0x47 0x46 0x01 0x11 0x44 0x45 0x3C 0x18 0x22 0x20 in this order,
\* ends with a busy-wait and returns Ok.
C5_InitSequence ==
    (last.op = "init" /\ ~last.failed) =>
        /\ Opcodes(log) = InitOpcodes
        /\ log[Len(log)].t = "busy"
        /\ last.result = "Ok"

\* C6: update(Some(buf), None, Slow) sends exactly 0x4E 00 00, 0x4F 00 00,
\* 0x24 buf, 0x22 F7, 0x20 (a prefix of it up to a failed write) and never
\* 0x26.
C6_UpdateBwSlow ==
    (last.op = "update" /\ last.bw # <<>> /\ last.red = <<>> /\ last.mode = 247) =>
        LET expected ==
                <<Ev("cmd", <<78>>), Ev("data", <<0, 0>>),
                  Ev("cmd", <<79>>), Ev("data", <<0, 0>>),
                  Ev("cmd", <<36>>), Ev("data", last.bw[1]),
                  Ev("cmd", <<34>>), Ev("data", <<247>>),
                  Ev("cmd", <<32>>)>>
        IN  /\ IsPrefix(Transfers(log), expected)
            /\ ~last.failed => (Transfers(log) = expected /\ last.result = "Ok")
            /\ \A i \in 1 .. Len(log) : log[i] # Ev("cmd", <<38>>)

\* Display::update(Slow) sent a non-empty framebuffer
C6_Witness ==
    /\ last.op = "update"
    /\ last.result = "Ok"
    /\ hasBuffer
    /\ last.bw = <<bw_buffer>>
    /\ Len(bw_buffer) > 0
    /\ last.red = <<>>
    /\ last.mode = 247

\* C7: reset() drives the reset line low, waits 10 ms, drives it high, waits
\* 10 ms, sends 0x12, busy-waits, and only then runs init(): every command
\* after 0x12 is an init command, in init's order, and a reset that returns
\* has run all of init.
C7_ResetOrder ==
    (last.op = "reset") =>
        LET head ==
                <<Ev("rst_low", <<>>), Ev("delay", <<10>>),
                  Ev("rst_high", <<>>), Ev("delay", <<10>>),
                  Ev("cmd", <<18>>), Ev("busy", <<>>)>>
        IN  /\ Len(log) >= 4
            /\ IF Len(log) <= 6 THEN IsPrefix(log, head) ELSE IsPrefix(head, log)
            /\ IsPrefix(Opcodes(log), <<18>> \o InitOpcodes)
            /\ last.result = "Ok" => Opcodes(log) = <<18>> \o InitOpcodes

\* a reset ran to its end
C7_Witness ==
    /\ last.op = "reset"
    /\ last.result = "Ok"
    /\ initialized

\* C8: no command of update (called directly or by the automatic update of
\* draw_iter and clear) reaches the transport unless init() has completed
\* since the last hardware reset.
C8_NoUpdateBeforeInit ==
    (last.op \in {"update", "draw_iter", "clear"} /\ Transfers(log) # <<>>) =>
        initialized

\* C9: a call of init, reset or update in which a transport operation failed
\* returns Err to its caller.
C9_TransportErrorReturned ==
    (last.op \in {"init", "reset", "update"} /\ last.failed) => last.result = "Err"

\* C10: Builder::dimensions accepts exactly the dimensions with cols % 8 = 0,
\* rows <= 680 and cols <= 960, and every builder and Config holds such
\* dimensions.
C10_DimensionsValidated ==
    LET valid(d) == d.cols % 8 = 0 /\ d.rows <= 680 /\ d.cols <= 960
    IN  /\ last.op = "dimensions" => (last.result = "Ok" <=> valid(last.dims))
        /\ (last.op = "dimensions" /\ last.result = "Ok") =>
               builder.dimensions = last.dims
        /\ builder # NoConfig /\ builder.dimensions # NoDimensions =>
               valid(builder.dimensions)
        /\ config # NoConfig => valid(config.dimensions)

\* the builder rejected rows 480, cols 801
C10_Witness ==
    /\ last.op = "dimensions"
    /\ last.dims = [rows |-> 480, cols |-> 801]
    /\ last.result = "panic"
    /\ pc = "panicked"

\* C11: clear(On) sets every byte of the framebuffer to 0x00 and clear(Off)
\* sets every byte to 0xFF, whatever it held before the call.
C11_ClearFills ==
    (last.op = "clear") =>
        \A i \in 1 .. Len(bw_buffer) :
            bw_buffer[i] = (IF last.color = "On" THEN 0 ELSE 255)

\* clear(On) zeroed a non-empty framebuffer
C11_Witness ==
    /\ last.op = "clear"
    /\ last.color = "On"
    /\ Len(bw_buffer) > 0
    /\ \A i \in 1 .. Len(bw_buffer) : bw_buffer[i] = 0

\* C12: under Rotate90 the mapping of the caller's (x, y) is
\* byte = (width-1-y)/8 + (width/8)*x, bit = 0x01 << (y%8), width = cols.
\* (MapSpec)
C12_Rotate90Formula ==
    (mapOut # <<>> /\ mapIn.rot = "Rotate90" /\ ~mapOut[1].panicked) =>
        /\ mapOut[1].index =
               ((mapIn.dims.cols - 1 - mapIn.y1) \div 8)
                   + (mapIn.dims.cols \div 8) * mapIn.x1
        /\ mapOut[1].bit = Pow2(mapIn.y1 % 8)

\* C13: under Rotate180 the mapping of the caller's (x, y) is
\* byte = (width/8)*height - 1 - (x/8 + (width/8)*y), bit = 0x01 << (x%8),
\* width = cols, height = rows.  (MapSpec)
C13_Rotate180Formula ==
    (mapOut # <<>> /\ mapIn.rot = "Rotate180" /\ ~mapOut[1].panicked) =>
        /\ mapOut[1].index =
               (mapIn.dims.cols \div 8) * mapIn.dims.rows - 1
                   - ((mapIn.x1 \div 8) + (mapIn.dims.cols \div 8) * mapIn.y1)
        /\ mapOut[1].bit = Pow2(mapIn.x1 % 8)

\* C14: under Rotate270 the mapping of the caller's (x, y) is
\* byte = y/8 + (height-1-x)*(width/8), bit = 0x80 >> (y%8), width = cols,
\* height = rows.  (MapSpec)
C14_Rotate270Formula ==
    (mapOut # <<>> /\ mapIn.rot = "Rotate270" /\ ~mapOut[1].panicked) =>
        /\ mapOut[1].index =
               (mapIn.y1 \div 8)
                   + (mapIn.dims.rows - 1 - mapIn.x1) * (mapIn.dims.cols \div 8)
        /\ mapOut[1].bit = 128 \div Pow2(mapIn.y1 % 8)

\* a call of the command layer was made (CommandSpec)
CommandDone == pc = "command" /\ last.op # "none"

\* C15: set_ram_x_address(start, end) and set_ram_y_address(start, end) send
\* the end value truncated to its low 10 bits: the two end bytes encode
\* end mod 1024.  (CommandSpec)
C15_EndTruncatedTo10Bits ==
    (/\ CommandDone
     /\ last.op \in {"set_ram_x_address", "set_ram_y_address"}
     /\ last.result = "Ok") =>
        LET data == Transfers(log)[2].b
        IN  data[3] + 256 * data[4] = mapIn.call.b % 1024

\* C19: a command-layer operation whose n-th write fails returns the error
\* of that write unchanged and stops: only the n-1 writes before it reached
\* the transport, in their order, and a failed send_command is followed by
\* no send_data.  (CommandSpec)
C19_ErrorPropagated ==
    (CommandDone /\ mapIn.failAt > 0 /\ ~last.overflowed) =>
        LET whole == Transfers(Exec(CommandSteps(mapIn.call), 0, FALSE).sent)
        IN  /\ last.result = "Err"
            /\ last.error = mapIn.error
            /\ Transfers(log) = SubSeq(whole, 1, mapIn.failAt - 1)
            /\ mapIn.failAt = 1 => Transfers(log) = <<>>

\* the second send_data of set_driver_output_control_from_width failed with
\* E2, one send_data short of the end
C19_Witness ==
    /\ CommandDone
    /\ last.op = "set_driver_output_control_from_width"
    /\ mapIn.failAt = 3
    /\ last.result = "Err"
    /\ last.error = "E2"
    /\ Len(Transfers(log)) = 2

\* C20: every command-layer operation performs exactly one send_command,
\* before all of its send_data calls, and then one or more send_data calls.
\* (CommandSpec)
C20_OneCommandThenData ==
    (CommandDone /\ last.result = "Ok") =>
        LET t == Transfers(log)
        IN  /\ Len(t) >= 2
            /\ t[1].t = "cmd"
            /\ \A i \in 2 .. Len(t) : t[i].t = "data"

\* the writes the claim C16 lists for one supplied plane
PlaneWrites(plane, opcode) ==
    IF plane = <<>> THEN <<>>
    ELSE <<Ev("cmd", <<78>>), Ev("data", <<0, 0>>),
           Ev("cmd", <<79>>), Ev("data", <<0, 0>>),
           Ev("cmd", <<opcode>>), Ev("data", plane[1])>>

\* C16: for every combination of planes and every mode, update sends for
\* each supplied plane, B/W first, 0x4E 00 00, 0x4F 00 00 and the plane's RAM
\* write (0x24 B/W, 0x26 red) with the buffer, nothing for a plane that is
\* not supplied, then 0x22 with the mode byte, 0x20 and a busy-wait; with no
\* plane it sends only 0x22 and 0x20.  A failed write cuts the sequence.
C16_UpdateSequence ==
    (last.op = "update") =>
        LET expected ==
                PlaneWrites(last.bw, 36) \o PlaneWrites(last.red, 38)
                    \o <<Ev("cmd", <<34>>), Ev("data", <<last.mode>>), Ev("cmd", <<32>>)>>
        IN  /\ last.mode \in {255, 247}
            /\ IsPrefix(Transfers(log), expected)
            /\ ~last.failed =>
                   /\ Transfers(log) = expected
                   /\ log[Len(log)].t = "busy"
                   /\ last.result = "Ok"

\* update(Some(bw), Some(red), Fast) ran to its end
C16_Witness ==
    /\ last.op = "update"
    /\ last.bw # <<>>
    /\ last.red # <<>>
    /\ last.mode = 255
    /\ last.result = "Ok"
    /\ Len(Transfers(log)) = 15

\* the opcode of the command that the i-th write of t belongs to
RECURSIVE OwnerOpcode(_, _)
OwnerOpcode(t, i) ==
    IF i = 0 THEN -1
    ELSE IF t[i].t = "cmd" THEN t[i].b[1]
    ELSE OwnerOpcode(t, i - 1)

\* C17: for any two valid dimension settings the traces of init() have the
\* same length and the same opcodes in the same order, and the same data
\* bytes for every command except 0x01, 0x44 and 0x45.  (InitPairSpec)
C17_InitShapeFixed ==
    (pc = "pair" /\ mapOut # <<>>) =>
        LET t1 == Transfers(mapOut[1].sent)
            t2 == Transfers(mapOut[2].sent)
        IN  /\ Len(mapOut[1].sent) = Len(mapOut[2].sent)
            /\ Len(t1) = Len(t2)
            /\ Opcodes(t1) = Opcodes(t2)
            /\ \A i \in 1 .. Len(t1) :
                   /\ t1[i].t = t2[i].t
                   /\ OwnerOpcode(t1, i) \notin {1, 68, 69} => t1[i] = t2[i]

\* C18: a Display always holds a framebuffer of exactly rows*cols/8 bytes:
\* neither Display::new nor Display::from_basic_display yields another
\* length and no operation changes it.
C18_BufferLengthExact ==
    hasBuffer => Len(bw_buffer) = BufferLength(config.dimensions)

\* the opcode table of the command layer
OpcodeTable(op) ==
    CASE op = "set_driver_output_control" -> 1
      [] op = "set_gate_driving_voltage" -> 3
      [] op = "set_booster_soft_start_control" -> 12
      [] op = "set_temperature_sensor" -> 24
      [] op = "reset_software" -> 18
      [] op = "set_data_entry_mode" -> 17
      [] op = "refresh_display" -> 32
      [] op = "update_display_option1" -> 33
      [] op = "update_display_option2" -> 34
      [] op = "set_ram_x_address" -> 68
      [] op = "set_ram_y_address" -> 69
      [] op = "auto_write_ram_black_and_white_regular_pattern" -> 71
      [] op = "auto_write_ram_red_regular_pattern" -> 70
      [] op = "set_ram_x_count" -> 78
      [] op = "set_ram_y_count" -> 79
      [] op = "write_ram_black_and_white" -> 36
      [] op = "write_ram_red" -> 38
      [] op = "set_border_waveform_control" -> 60
      [] op = "nop" -> 127
      [] OTHER -> -1

\* C21: each command-layer operation sends exactly the opcode of the table
\* (0x01 driver output control, 0x03 gate driving voltage, 0x0C booster
\* soft-start, 0x18 temperature sensor, 0x12 software reset, 0x11 data entry
\* mode, 0x20 refresh, 0x21 and 0x22 update options, 0x44 and 0x45 RAM
\* windows, 0x47 and 0x46 fills, 0x4E and 0x4F RAM counters, 0x24 and 0x26 RAM
\* writes, 0x3C border waveform, 0x7F no-op); the booster data is 0xAE 0xC7
\* 0xC3 0xC0 and the inrush byte, the temperature sensor data is 0x80
\* (internal) or 48 (external), the RAM counters take two data bytes.
\* (CommandSpec)
C21_OpcodeTable ==
    (CommandDone /\ OpcodeTable(last.op) # -1) =>
        LET t == Transfers(log)
        IN  /\ t # <<>> => Opcodes(log) = <<OpcodeTable(last.op)>>
            /\ last.result = "Ok" =>
                  /\ t # <<>>
                  /\ t[1] = Ev("cmd", <<OpcodeTable(last.op)>>)
                  /\ last.op = "set_booster_soft_start_control" =>
                        /\ Len(t) = 2
                        /\ t[2] = Ev("data", <<174, 199, 195, 192, mapIn.call.a>>)
                  /\ last.op = "set_temperature_sensor" =>
                        /\ Len(t) = 2
                        /\ t[2] = Ev("data", <<mapIn.call.a>>)
                        /\ mapIn.call.a \in {128, 48}
                  /\ last.op \in {"set_ram_x_count", "set_ram_y_count"} =>
                        /\ Len(t) = 2
                        /\ t[2].t = "data"
                        /\ Len(t[2].b) = 2

\* write_ram_red returned Ok after the opcode 0x26 and its data
C21_Witness ==
    /\ CommandDone
    /\ last.op = "write_ram_red"
    /\ last.result = "Ok"
    /\ Transfers(log) = <<Ev("cmd", <<38>>), Ev("data", <<0, 255>>)>>

\* the voltages of the gate driving table, in tenths of a volt
GateTable == {120 + 5 * k : k \in 0 .. 16}

\* C22: set_gate_driving_voltage maps 12.0, 12.5 .. 20.0 V to the codes
\* 0x07 + 2 * (V - 12), i.e. 0x07 .. 0x17; every other input sends the code
\* 0x00 and returns without an error; the operation always sends opcode 0x03
\* followed by exactly one data byte.  (CommandSpec)
C22_GateVoltageTable ==
    (CommandDone /\ last.op = "set_gate_driving_voltage" /\ mapIn.failAt = 0) =>
        LET v == mapIn.call.a
            code == IF v \in GateTable THEN 7 + (2 * (v - 120)) \div 10 ELSE 0
        IN  /\ last.result = "Ok"
            /\ Transfers(log) = <<Ev("cmd", <<3>>), Ev("data", <<code>>)>>
            /\ v \in GateTable => code \in 7 .. 23

\* 20.0 V sent as 0x17, and 12.3 V, not in the table, sent as 0x00
C22_Witness ==
    /\ CommandDone
    /\ last.op = "set_gate_driving_voltage"
    /\ last.result = "Ok"
    /\ \/ mapIn.call.a = 200 /\ Transfers(log)[2].b = <<23>>
       \/ mapIn.call.a = 123 /\ Transfers(log)[2].b = <<0>>

\* C23: set_source_driving_voltage accepts three voltages, sends one command
\* followed by data and returns a result; it never aborts the program.
\* (CommandSpec)
C23_SourceVoltageReturns ==
    (CommandDone /\ last.op = "set_source_driving_voltage") =>
        /\ last.result \in {"Ok", "Err"}
        /\ last.result = "Ok" =>
              /\ Len(Transfers(log)) >= 2
              /\ Transfers(log)[1].t = "cmd"

\* C24: invalid dimensions are reported as a configuration error value when
\* the config is built, before any hardware access, and the failure is
\* recoverable: the builder call returns and the caller can go on to build a
\* valid config.  (BuilderSpec)
C24_InvalidDimensionsRecoverable ==
    (last.op = "dimensions" /\ ~dimensions_ok(last.dims)) =>
        /\ last.result = "Err"
        /\ pc = "builder"
        /\ log = <<>>

\* C25: Builder::build returns Err(BuilderError) exactly when no dimensions
\* were set; otherwise it returns a Config holding the dimensions, rotation
\* and auto_update last given to the builder, Rotate0 and true where none was
\* given; each setter leaves the other two fields unchanged.  (BuilderSpec)
C25_BuildResult ==
    /\ (pc = "builder" /\ last.op = "none") =>
           /\ builder.dimensions = NoDimensions
           /\ builder.rotation = "Rotate0"
           /\ builder.auto_update = TRUE
    /\ [][/\ (last'.op = "dimensions" /\ last'.result = "Ok") =>
                builder' = [dimensions |-> last'.dims,
                            rotation |-> builder.rotation,
                            auto_update |-> builder.auto_update]
          /\ last'.op = "rotation" =>
                builder' = [dimensions |-> builder.dimensions,
                            rotation |-> last'.rotation,
                            auto_update |-> builder.auto_update]
          /\ last'.op = "auto_update" =>
                builder' = [dimensions |-> builder.dimensions,
                            rotation |-> builder.rotation,
                            auto_update |-> last'.enabled]
          /\ last'.op = "build" =>
                /\ (last'.result = "Err") = (builder.dimensions = NoDimensions)
                /\ last'.result \in {"Ok", "Err"}
                /\ last'.result = "Ok" => config' = builder /\ pc' = "config"
                /\ last'.result = "Err" => config' = config /\ pc' = "builder"]_vars

\* a Config built after dimensions and auto_update(false) only: the rotation
\* is the default
C25_Witness ==
    /\ pc = "config"
    /\ last.op = "build"
    /\ last.result = "Ok"
    /\ config = [dimensions |-> [rows |-> 480, cols |-> 800],
                 rotation |-> "Rotate0", auto_update |-> FALSE]

C27_ClearNoHardware ==
    (last.op = "clear") =>
        /\ log = <<>>
        /\ last.result = "Ok"
        /\ pc = "display"

\* C28: at the moment of every bus transfer made by Interface4Pin, the
\* data/command line is low if the transfer is a command byte and high if it
\* is data; the line is set before the transfer starts, for every
\* send_command and send_data in any sequence of operations.  (InterfaceSpec)
C28_LineSetBeforeTransfer ==
    \A k \in 1 .. Len(mapOut) :
        LET call == mapOut[k]
            level == IF call.op = "send_command" THEN "low" ELSE "high"
        IN  call.op \in {"send_command", "send_data"} =>
                \A i \in call.first .. call.last :
                    IsSpi(log[i]) =>
                        /\ log[i].level = level
                        /\ \E j \in call.first .. (i - 1) :
                               log[j] = PinEv("dc", <<>>, level)

\* a data write of 4097 bytes in two transfers with the line high, after a
\* command byte sent with the line low
C28_Witness ==
    /\ pc = "interface"
    /\ Len(mapOut) = 2
    /\ mapOut[1].op = "send_command"
    /\ mapOut[2].op = "send_data"
    /\ last.result = "Ok"
    /\ log[2] = PinEv("spi", <<32>>, "low")
    /\ \E i \in mapOut[2].first .. mapOut[2].last :
           log[i].t = "spi" /\ log[i].level = "high" /\ Len(log[i].b) = 4096

RECURSIVE Concat(_)
\* the bytes of a list of transfers, in order
Concat(t) == IF t = <<>> THEN <<>> ELSE Head(t).b \o Concat(Tail(t))

\* C29: on the Linux target a data write of n bytes is split into
\* consecutive bus transfers of at most 4096 bytes each, in order, whose
\* concatenation equals the original buffer (ceil(n/4096) transfers); no
\* single transfer exceeds 4096 bytes.  (WriteSpec)
C29_ChunkedWrite ==
    (pc = "write" /\ mapOut # <<>> /\ mapIn.linux) =>
        LET t == mapOut[1].sent
            n == mapIn.n
            count == IF n % 4096 = 0 THEN n \div 4096 ELSE n \div 4096 + 1
        IN  /\ \A i \in 1 .. Len(t) : Len(t[i].b) <= 4096
            /\ mapIn.failAt = 0 =>
                  /\ mapOut[1].res = "Ok"
                  /\ \A i \in 1 .. Len(t) : t[i].t = "spi"
                  /\ Len(t) = count
                  /\ Concat(t) = Buffer(n)

\* 8193 bytes written in three transfers: 4096, 4096 and 1 byte
C29_Witness ==
    /\ pc = "write"
    /\ mapOut # <<>>
    /\ mapIn.linux
    /\ mapIn.n = 8193
    /\ mapIn.failAt = 0
    /\ Len(mapOut[1].sent) = 3
    /\ Len(mapOut[1].sent[3].b) = 1

\* C30: busy_wait returns only on ready: whenever it returns, the last read
\* of the busy line reported the line low; it never returns while the
\* readiness of the controller is unknown or the line reads high.
\* (InterfaceSpec)
C30_ReturnsOnlyOnReady ==
    (last.op = "busy_wait" /\ last.result = "Ok") =>
        /\ log # <<>>
        /\ log[Len(log)] = PinEv("busy", <<>>, "low")

\* the steps of the last init, reset or update call
LastSteps ==
    CASE last.op = "init" -> init_steps(config)
      [] last.op = "reset" -> reset_steps(config)
      [] last.op = "update" -> update_steps(last.bw, last.red, last.mode)
      [] OTHER -> <<>>

\* C32: once a transport operation has failed inside init(), reset() or
\* update(), that call sends no further command or data byte: the failed
\* step is not repeated and no later step of the sequence is emitted.
C32_NoRetry ==
    (last.op \in {"init", "reset", "update"} /\ last.failed) =>
        /\ last.failAt >= 1
        /\ Transfers(log) = SubSeq(Transfers(LastSteps), 1, last.failAt - 1)

\* the second write of init() failed: only the fill command 0x47 was sent
C32_Witness ==
    /\ last.op = "init"
    /\ last.failed
    /\ last.failAt = 2
    /\ Transfers(log) = <<Ev("cmd", <<71>>)>>

\* the data writes that follow the command opcode in the transfers t
DataAfter(t, opcode) ==
    LET at == {i \in 1 .. Len(t) : t[i] = Ev("cmd", <<opcode>>)}
    IN  IF at = {} THEN <<>>
        ELSE LET i == CHOOSE k \in at : TRUE
                 ends == {j \in (i + 1) .. Len(t) : t[j].t = "cmd"}
                 stop == IF ends = {} THEN Len(t) + 1
                         ELSE CHOOSE j \in ends : \A k \in ends : j <= k
             IN  [k \in 1 .. (stop - i - 1) |-> t[i + k].b]

\* C35: the data bytes init() sends for its fixed-policy steps do not depend
\* on the configuration: both RAM fills carry 0xF7, data entry mode carries
\* 0x03, border waveform control carries 0x01, temperature sensor select
\* carries 0x80 and the waveform-LUT load (0x22) carries 0xFF.
C35_InitFixedData ==
    (last.op = "init") =>
        LET t == Transfers(log)
            fixed == <<<<71, 247>>, <<70, 247>>, <<17, 3>>, <<60, 1>>, <<24, 128>>,
                       <<34, 255>>>>
        IN  \A k \in 1 .. Len(fixed) :
                /\ DataAfter(t, fixed[k][1]) \in {<<>>, <<<<fixed[k][2]>>>>}
                /\ last.result = "Ok" => DataAfter(t, fixed[k][1]) = <<<<fixed[k][2]>>>>

\* init() returned Ok on a 480 x 800 panel with all six fixed bytes sent
C35_Witness ==
    /\ last.op = "init"
    /\ last.result = "Ok"
    /\ config.dimensions = [rows |-> 480, cols |-> 800]
    /\ DataAfter(Transfers(log), 60) = <<<<1>>>>
    /\ DataAfter(Transfers(log), 17) = <<<<3>>>>

\* C36: for a configuration with rows R and cols C, init() programs the
\* driver output control with the bytes (R-1) mod 256, (R-1) div 256, 0x02
\* in that order, the RAM X window with start 0 and end C-1 and the RAM Y
\* window with start 0 and end R-1, each 16-bit value sent low byte first.
C36_InitDimensionBytes ==
    (last.op = "init" /\ last.result = "Ok") =>
        LET t == Transfers(log)
            R == config.dimensions.rows
            C == config.dimensions.cols
        IN  /\ DataAfter(t, 1) = <<<<(R - 1) % 256>>, <<(R - 1) \div 256>>, <<2>>>>
            /\ DataAfter(t, 68) = <<<<0, 0, (C - 1) % 256, (C - 1) \div 256>>>>
            /\ DataAfter(t, 69) = <<<<0, 0, (R - 1) % 256, (R - 1) \div 256>>>>

\* C37: for every Config that the builder accepts, init() computes its
\* parameters without unsigned 16-bit underflow: rows - 1 and cols - 1 are
\* computed only from rows >= 1 and cols >= 1.
C37_NoU16Underflow ==
    (last.op = "init") =>
        /\ ~last.overflowed
        /\ \A i \in 1 .. Len(init_steps(config)) :
               init_steps(config)[i].t = "sub16" => init_steps(config)[i].b[1] >= 1

\* C38: for every rotation and every logical coordinate inside the reported
\* size, the unsigned 32-bit arithmetic of the address mapping (the x flip,
\* width - 1 - y, height - x, and the Rotate180 subtraction from
\* (width/8)*height - 1) never goes below zero.  (MapSpec)
C38_NoU32Underflow ==
    (pc = "map" /\ mapOut # <<>>) =>
        /\ mapIn.x1 < size([dimensions |-> mapIn.dims, rotation |-> mapIn.rot,
                            auto_update |-> FALSE]).width
        /\ mapIn.y1 < size([dimensions |-> mapIn.dims, rotation |-> mapIn.rot,
                            auto_update |-> FALSE]).height
        /\ ~mapOut[1].overflow
        /\ mapOut[1].index >= 0

\* C33: draw_iter clips: every pixel whose coordinates lie outside the
\* rotation-adjusted reported size (x >= width, y >= height, or a negative
\* coordinate) is skipped and changes no byte of the framebuffer, and
\* set_pixel is called only with coordinates inside the reported size.
\* (DrawSpec)
C33_DrawIterClips ==
    (last.op = "draw_iter") =>
        LET sz == size(config)
            inside(p) == p.x >= 0 /\ p.x < sz.width /\ p.y >= 0 /\ p.y < sz.height
            kept == SelectSeq(last.pixels, inside)
            coords == [i \in 1 .. Len(kept) |-> <<kept[i].x, kept[i].y>>]
        IN  /\ \A i \in 1 .. Len(last.calls) :
                   /\ last.calls[i][1] >= 0 /\ last.calls[i][1] < sz.width
                   /\ last.calls[i][2] >= 0 /\ last.calls[i][2] < sz.height
            /\ IsPrefix(last.calls, coords)
            /\ last.result = "Ok" => last.calls = coords
            /\ kept = <<>> => bw_buffer = mapIn.buffer
            /\ bw_buffer = draw_pixels(mapIn.buffer, config, kept, overflow_checks).buffer

\* a pixel at x = -1 and a pixel inside: set_pixel was called for the second
\* only, and it changed the framebuffer
C33_Witness ==
    /\ last.op = "draw_iter"
    /\ last.result = "Ok"
    /\ Len(last.pixels) = 2
    /\ last.pixels[1].x = -1
    /\ Len(last.calls) = 1
    /\ last.calls[1] = <<last.pixels[2].x, last.pixels[2].y>>
    /\ bw_buffer # mapIn.buffer

\* C34: draw_iter writes all of its pixels into the framebuffer before any
\* transfer to the chip; with auto_update enabled it then performs exactly
\* one update in Fast mode (0x22 with 0xFF) of the B/W plane, and with
\* auto_update disabled it sends nothing to the transport; in both cases it
\* returns Ok.  (DrawSpec)
C34_DrawThenOneFastUpdate ==
    (last.op = "draw_iter") =>
        /\ last.result = "Ok"
        /\ config.auto_update =>
               /\ Transfers(log) = Transfers(update_steps(<<bw_buffer>>, <<>>, 255))
               /\ Opcodes(log) = <<78, 79, 36, 34, 32>>
        /\ ~config.auto_update => log = <<>>

\* the k-th interface call was a send_command or send_data that returned Ok
SentAndReturned(k) ==
    /\ mapOut[k].op \in {"send_command", "send_data"}
    /\ \A i \in mapOut[k].first .. mapOut[k].last : log[i].t # "spi_err"
    /\ k = Len(mapOut) => last.result = "Ok"

\* C39: with Interface4Pin, every send_command and every send_data polls the
\* busy line until it is not busy after its transfer and before returning,
\* so between any two consecutive command/data transfers of any operation
\* sequence a busy-wait has completed; no busy-wait is performed between the
\* 4096-byte chunks of one data write.  (InterfaceSpec)
C39_BusyWaitAfterTransfer ==
    (pc = "interface") =>
        \A k \in 1 .. Len(mapOut) :
            SentAndReturned(k) =>
                LET first == mapOut[k].first
                    final == mapOut[k].last
                IN  /\ final >= first
                    /\ log[final] = PinEv("busy", <<>>, "low")
                    /\ \A i \in first .. final : \A j \in first .. final :
                           (log[i].t = "busy" /\ log[j].t = "spi") => j < i
                    /\ \A i \in first .. (final - 1) :
                           log[i].t = "busy" => log[i].level = "high"

\* C31: busy-waiting has no timeout: if the busy line reads high forever,
\* any operation that busy-waits (send_command, send_data, refresh_display,
\* reset_software, init, reset, update) never returns and reports no error;
\* if the busy line eventually reads low and stays low and all transfers
\* succeed, reset() eventually completes with Ok.  (LiveSpec)
C31_NoTimeout ==
    /\ [](mapIn.line = "high") => [](last.result = "none")
    /\ (mapIn.op = "reset" /\ <>[](mapIn.line = "low")) => <>(last.result = "Ok")

====
